---- MODULE Spec2Model ----
(***************************************************************************)
(* Model of src/backend/fhir_nlp_service.py: the request handler           *)
(* process_query and the three FHIRNLPProcessor methods it calls,          *)
(* extract_intent, build_fhir_query and generate_mock_fhir_response.       *)
(*                                                                         *)
(* Text is a sequence of one-character strings, so substring tests and     *)
(* the regular expressions of the source are computed on characters.       *)
(* A calendar date is its proleptic Gregorian ordinal (0001-01-01 = 1),    *)
(* as in Python's datetime; strftime renders it back to characters.        *)
(***************************************************************************)
EXTENDS Integers, Sequences, FiniteSets, TLC

(***************************************************************************)
(* Bounds of the explored inputs.                                          *)
(***************************************************************************)
\* "N patients" phrases are generated for N in 0..MaxCount
MaxCount == 3

(***************************************************************************)
(* Python values.                                                          *)
(***************************************************************************)
\* Optional[T]: None is the empty sequence, a present value x is <<x>>
None == <<>>

Some(x) == <<x>>

\* the empty dict
EmptyDict == [k \in {} |-> None]

(***************************************************************************)
(* Characters and strings.                                                 *)
(***************************************************************************)
UpperCase == <<"A","B","C","D","E","F","G","H","I","J","K","L","M",
               "N","O","P","Q","R","S","T","U","V","W","X","Y","Z">>

LowerCase == <<"a","b","c","d","e","f","g","h","i","j","k","l","m",
               "n","o","p","q","r","s","t","u","v","w","x","y","z">>

DigitChars == <<"0","1","2","3","4","5","6","7","8","9">>

IsDigit(c) == \E i \in 1..10 : DigitChars[i] = c

IsSpace(c) == c \in {" ", "\t", "\n", "\r"}

DigitVal(c) == (CHOOSE i \in 1..10 : DigitChars[i] = c) - 1

\* str.lower() on one character
LowerChar(c) ==
    IF \E i \in 1..26 : UpperCase[i] = c
    THEN LowerCase[CHOOSE i \in 1..26 : UpperCase[i] = c]
    ELSE c

\* str.lower()
Lower(s) == [i \in 1..Len(s) |-> LowerChar(s[i])]

\* s[i..] starts with lit
StartsAt(s, i, lit) ==
    /\ i >= 1
    /\ i + Len(lit) - 1 <= Len(s)
    /\ \A k \in 1..Len(lit) : s[i + k - 1] = lit[k]

\* Python's `lit in s`
Contains(s, lit) == \E i \in 1..(Len(s) + 1) : StartsAt(s, i, lit)

\* int(str) on a string of decimal digits
RECURSIVE ParseInt(_)
ParseInt(ds) ==
    IF Len(ds) = 0 THEN 0
    ELSE 10 * ParseInt(SubSeq(ds, 1, Len(ds) - 1)) + DigitVal(ds[Len(ds)])

\* str(n) for n >= 0
RECURSIVE IntToStr(_)
IntToStr(n) ==
    IF n < 10 THEN <<DigitChars[n + 1]>>
    ELSE IntToStr(n \div 10) \o <<DigitChars[(n % 10) + 1]>>

\* %0wd: n rendered in at least w digits, zero padded
RECURSIVE ZeroPad(_, _)
ZeroPad(ds, w) == IF Len(ds) >= w THEN ds ELSE ZeroPad(<<"0">> \o ds, w)

(***************************************************************************)
(* Regular expressions.  A pattern is a sequence of elements: a literal    *)
(* [lit |-> chars], a captured group of digits "(\d+)" written Digits,     *)
(* or a run of whitespace "\s+" written Spaces.  In every pattern of the   *)
(* source a greedy group is followed by a character outside the group's    *)
(* class, so the greedy match is the only one.                             *)
(***************************************************************************)
Lit(chars) == [kind |-> "lit", lit |-> chars]

Digits == [kind |-> "digits", lit |-> <<>>]

Spaces == [kind |-> "spaces", lit |-> <<>>]

\* last index of the longest run of characters of a class that starts at i
\* (i - 1 when the run is empty)
RECURSIVE DigitRunEnd(_, _)
DigitRunEnd(s, i) ==
    IF i <= Len(s) /\ IsDigit(s[i]) THEN DigitRunEnd(s, i + 1) ELSE i - 1

RECURSIVE SpaceRunEnd(_, _)
SpaceRunEnd(s, i) ==
    IF i <= Len(s) /\ IsSpace(s[i]) THEN SpaceRunEnd(s, i + 1) ELSE i - 1

\* match elements k.. of pat against s from position i; the result is
\* [ok |-> matched, groups |-> the captured groups in order]
RECURSIVE MatchFrom(_, _, _, _, _)
MatchFrom(s, i, pat, k, groups) ==
    IF k > Len(pat) THEN [ok |-> TRUE, groups |-> groups]
    ELSE IF pat[k].kind = "lit" THEN
        IF StartsAt(s, i, pat[k].lit)
        THEN MatchFrom(s, i + Len(pat[k].lit), pat, k + 1, groups)
        ELSE [ok |-> FALSE, groups |-> <<>>]
    ELSE IF pat[k].kind = "digits" THEN
        LET e == DigitRunEnd(s, i) IN
        IF e >= i
        THEN MatchFrom(s, e + 1, pat, k + 1, Append(groups, SubSeq(s, i, e)))
        ELSE [ok |-> FALSE, groups |-> <<>>]
    ELSE
        LET e == SpaceRunEnd(s, i) IN
        IF e >= i
        THEN MatchFrom(s, e + 1, pat, k + 1, groups)
        ELSE [ok |-> FALSE, groups |-> <<>>]

\* re.search(pat, s): the match at the leftmost position that has one
re_search(pat, s) ==
    LET starts == {i \in 1..(Len(s) + 1) : MatchFrom(s, i, pat, 1, <<>>).ok} IN
    IF starts = {} THEN None
    ELSE LET first == CHOOSE i \in starts : \A j \in starts : i <= j
         IN  Some(MatchFrom(s, first, pat, 1, <<>>).groups)

(***************************************************************************)
(* Dates: datetime's ordinal arithmetic and strftime('%Y-%m-%d').          *)
(***************************************************************************)
DAYS_BEFORE_MONTH == <<0, 31, 59, 90, 120, 151, 181, 212, 243, 273, 304, 334>>

IsLeap(y) == y % 4 = 0 /\ (y % 100 # 0 \/ y % 400 = 0)

DaysBeforeYear(y) ==
    LET p == y - 1 IN p * 365 + (p \div 4) - (p \div 100) + (p \div 400)

\* date(y, m, d).toordinal()
Ymd2Ord(y, m, d) ==
    DaysBeforeYear(y) + DAYS_BEFORE_MONTH[m]
        + (IF m > 2 /\ IsLeap(y) THEN 1 ELSE 0) + d

\* date.fromordinal(n) as <<year, month, day>>, for n >= 1
Ord2Ymd(n) ==
    LET n0   == n - 1
        n400 == n0 \div 146097
        r400 == n0 % 146097
        n100 == r400 \div 36524
        r100 == r400 % 36524
        n4   == r100 \div 1461
        r4   == r100 % 1461
        n1   == r4 \div 365
        r1   == r4 % 365
        year == n400 * 400 + 1 + n100 * 100 + n4 * 4 + n1
    IN  IF n1 = 4 \/ n100 = 4 THEN <<year - 1, 12, 31>>
        ELSE
          LET leap == n1 = 3 /\ (n4 # 24 \/ n100 = 3)
              lp(m) == IF m > 2 /\ leap THEN 1 ELSE 0
              m0   == (r1 + 50) \div 32
              pre0 == DAYS_BEFORE_MONTH[m0] + lp(m0)
              m    == IF pre0 > r1 THEN m0 - 1 ELSE m0
              pre  == DAYS_BEFORE_MONTH[m] + lp(m)
          IN  <<year, m, r1 - pre + 1>>

\* strftime('%Y-%m-%d') of the date with ordinal n
Strftime(n) ==
    LET ymd == Ord2Ymd(n) IN
    ZeroPad(IntToStr(ymd[1]), 4) \o <<"-">> \o ZeroPad(IntToStr(ymd[2]), 2)
        \o <<"-">> \o ZeroPad(IntToStr(ymd[3]), 2)

\* largest timedelta(days=...) and smallest date ordinal Python accepts
TIMEDELTA_MAX_DAYS == 999999999

DATE_MIN_ORDINAL == 1

(***************************************************************************)
(* FHIRNLPProcessor.__init__: the rule tables.                             *)
(***************************************************************************)
ICD10 == "http://hl7.org/fhir/sid/icd-10"

\* the dict in insertion order; text is the key, data the value
condition_mappings == <<
    [text |-> <<"d","i","a","b","e","t","e","s">>,
     data |-> [code |-> "E11", display |-> "Type 2 diabetes mellitus", system |-> ICD10]],
    [text |-> <<"d","i","a","b","e","t","i","c">>,
     data |-> [code |-> "E11", display |-> "Type 2 diabetes mellitus", system |-> ICD10]],
    [text |-> <<"h","y","p","e","r","t","e","n","s","i","o","n">>,
     data |-> [code |-> "I10", display |-> "Essential hypertension", system |-> ICD10]],
    [text |-> <<"h","i","g","h"," ","b","l","o","o","d"," ","p","r","e","s","s","u","r","e">>,
     data |-> [code |-> "I10", display |-> "Essential hypertension", system |-> ICD10]],
    [text |-> <<"h","e","a","r","t"," ","d","i","s","e","a","s","e">>,
     data |-> [code |-> "I25", display |-> "Chronic ischemic heart disease", system |-> ICD10]],
    [text |-> <<"a","s","t","h","m","a">>,
     data |-> [code |-> "J45", display |-> "Asthma", system |-> ICD10]],
    [text |-> <<"c","a","n","c","e","r">>,
     data |-> [code |-> "C80", display |-> "Malignant neoplasm", system |-> ICD10]],
    [text |-> <<"d","e","p","r","e","s","s","i","o","n">>,
     data |-> [code |-> "F32", display |-> "Major depressive disorder", system |-> ICD10]] >>

\* the same templates with the range templates moved to the front
age_patterns_RangeFirst == <<
    [pattern |-> <<Lit(<<"b","e","t","w","e","e","n"," ">>), Digits, Lit(<<" ","a","n","d"," ">>), Digits>>, type |-> "range"],
    [pattern |-> <<Digits, Lit(<<" ","t","o"," ">>), Digits>>,                     type |-> "range"],
    [pattern |-> <<Lit(<<"o","v","e","r"," ">>), Digits>>,                            type |-> "gt"],
    [pattern |-> <<Lit(<<"a","b","o","v","e"," ">>), Digits>>,                           type |-> "gt"],
    [pattern |-> <<Lit(<<"u","n","d","e","r"," ">>), Digits>>,                           type |-> "lt"],
    [pattern |-> <<Lit(<<"b","e","l","o","w"," ">>), Digits>>,                           type |-> "lt"] >>

age_patterns == <<
    [pattern |-> <<Lit(<<"o","v","e","r"," ">>), Digits>>,                            type |-> "gt"],
    [pattern |-> <<Lit(<<"a","b","o","v","e"," ">>), Digits>>,                           type |-> "gt"],
    [pattern |-> <<Lit(<<"u","n","d","e","r"," ">>), Digits>>,                           type |-> "lt"],
    [pattern |-> <<Lit(<<"b","e","l","o","w"," ">>), Digits>>,                           type |-> "lt"],
    [pattern |-> <<Lit(<<"b","e","t","w","e","e","n"," ">>), Digits, Lit(<<" ","a","n","d"," ">>), Digits>>, type |-> "range"],
    [pattern |-> <<Digits, Lit(<<" ","t","o"," ">>), Digits>>,                     type |-> "range"] >>

\* r"(\d+)\s+patients"
count_pattern == <<Digits, Spaces, Lit(<<"p","a","t","i","e","n","t","s">>)>>

\* the keyword groups of the action chain, in the order they are tested
show_words == <<<<"s","h","o","w">>, <<"d","i","s","p","l","a","y">>, <<"l","i","s","t">>>>

get_words == <<<<"g","e","t">>, <<"r","e","t","r","i","e","v","e">>, <<"f","e","t","c","h">>>>

count_words == <<<<"c","o","u","n","t">>, <<"h","o","w"," ","m","a","n","y">>>>

\* any(word in query_lower for word in words)
AnyWordIn(words, query_lower) ==
    \E k \in 1..Len(words) : Contains(query_lower, words[k])

(***************************************************************************)
(* FHIRNLPProcessor.extract_intent                                         *)
(***************************************************************************)
\* the action chain with "show" as the fallback value
ExtractAction_DefaultShow(query_lower) ==
    IF AnyWordIn(show_words, query_lower) THEN "show"
    ELSE IF AnyWordIn(get_words, query_lower) THEN "get"
    ELSE IF AnyWordIn(count_words, query_lower) THEN "count"
    ELSE "show"

ExtractAction(query_lower) ==
    IF AnyWordIn(show_words, query_lower) THEN "show"
    ELSE IF AnyWordIn(get_words, query_lower) THEN "get"
    ELSE IF AnyWordIn(count_words, query_lower) THEN "count"
    ELSE "find"

\* both branches assign "Patient"
ExtractResourceType(query_lower) ==
    IF Contains(query_lower, <<"p","a","t","i","e","n","t">>) THEN "Patient" ELSE "Patient"

\* the loop over condition_mappings.items() from entry k on
RECURSIVE ExtractConditions(_, _)
ExtractConditions(query_lower, k) ==
    IF k > Len(condition_mappings) THEN <<>>
    ELSE IF Contains(query_lower, condition_mappings[k].text)
         THEN <<condition_mappings[k].data>> \o ExtractConditions(query_lower, k + 1)
         ELSE ExtractConditions(query_lower, k + 1)

\* the loop over age_patterns from entry k on; it stops at the first match
RECURSIVE ExtractAgeFilter(_, _)
ExtractAgeFilter(query_lower, k) ==
    IF k > Len(age_patterns) THEN None
    ELSE LET match == re_search(age_patterns[k].pattern, query_lower) IN
         IF match # None THEN
            IF age_patterns[k].type = "range"
            THEN Some([type |-> "range",
                       min  |-> ParseInt(match[1][1]),
                       max  |-> ParseInt(match[1][2])])
            ELSE Some([type  |-> age_patterns[k].type,
                       value |-> ParseInt(match[1][1])])
         ELSE ExtractAgeFilter(query_lower, k + 1)

ExtractCountLimit(query_lower) ==
    LET count_match == re_search(count_pattern, query_lower) IN
    IF count_match # None THEN Some(ParseInt(count_match[1][1])) ELSE None

extract_intent(query) ==
    LET query_lower == Lower(query) IN
    [action        |-> ExtractAction(query_lower),
     resource_type |-> ExtractResourceType(query_lower),
     conditions    |-> ExtractConditions(query_lower, 1),
     age_filter    |-> ExtractAgeFilter(query_lower, 1),
     count_limit   |-> ExtractCountLimit(query_lower)]

(***************************************************************************)
(* FHIRNLPProcessor.build_fhir_query                                       *)
(***************************************************************************)
\* Python truth value of an Optional[int]: None and 0 are false
Truthy(opt) == opt # None /\ opt[1] # 0

\* datetime.now() - timedelta(days=365*years) raises OverflowError when the
\* timedelta or the resulting date is out of range
DateRaises(now, years) ==
    \/ years > TIMEDELTA_MAX_DAYS \div 365
    \/ now - 365 * years < DATE_MIN_ORDINAL

\* (datetime.now() - timedelta(days=365*years)).strftime('%Y-%m-%d')
BirthBound(now, years) == Strftime(now - 365 * years)

\* ",".join(f"{cond['system']}|{cond['code']}" for cond in conditions), as
\* the sequence of its pieces
RECURSIVE JoinCodes(_)
JoinCodes(conds) ==
    IF Len(conds) = 0 THEN <<>>
    ELSE IF Len(conds) = 1 THEN <<conds[1].system, "|", conds[1].code>>
    ELSE <<conds[1].system, "|", conds[1].code, ",">> \o JoinCodes(Tail(conds))

\* does the age-filter block raise; now1 and now2 are the values of the two
\* datetime.now() calls of the range branch, in the order they are made
BuildRaises(intent, now1, now2) ==
    /\ intent.age_filter # None
    /\ LET f == intent.age_filter[1] IN
       \/ f.type \in {"gt", "lt"} /\ DateRaises(now1, f.value)
       \/ f.type = "range" /\ (DateRaises(now1, f.max) \/ DateRaises(now2, f.min))

\* the birthdate parameter
BirthdateParam(f, now1, now2) ==
    IF f.type = "gt" THEN <<"l","e">> \o BirthBound(now1, f.value)
    ELSE IF f.type = "lt" THEN <<"g","e">> \o BirthBound(now1, f.value)
    ELSE <<"g","e">> \o BirthBound(now1, f.max)
            \o <<"&","b","i","r","t","h","d","a","t","e","=","l","e">> \o BirthBound(now2, f.min)

\* the returned dict, when nothing raises
build_fhir_query(intent, now1, now2) ==
    [resourceType |-> intent.resource_type]
    @@ (IF Len(intent.conditions) > 0
        THEN [condition |-> JoinCodes(intent.conditions)] ELSE EmptyDict)
    @@ (IF intent.age_filter # None
        THEN [birthdate |-> BirthdateParam(intent.age_filter[1], now1, now2)]
        ELSE EmptyDict)
    @@ (IF Truthy(intent.count_limit)
        THEN [_count |-> intent.count_limit[1]] ELSE EmptyDict)

(***************************************************************************)
(* FHIRNLPProcessor.generate_mock_fhir_response                            *)
(***************************************************************************)
\* name holds the result of patient["name"].split()
base_patients == <<
    [id |-> "1", name |-> <<"John", "Doe">>,       birthDate |-> <<"1","9","7","0","-","0","5","-","1","5">>, gender |-> "male"],
    [id |-> "2", name |-> <<"Jane", "Smith">>,     birthDate |-> <<"1","9","6","5","-","0","8","-","2","2">>, gender |-> "female"],
    [id |-> "3", name |-> <<"Robert", "Johnson">>, birthDate |-> <<"1","9","8","0","-","1","2","-","0","3">>, gender |-> "male"],
    [id |-> "4", name |-> <<"Mary", "Williams">>,  birthDate |-> <<"1","9","5","5","-","0","3","-","1","0">>, gender |-> "female"],
    [id |-> "5", name |-> <<"David", "Brown">>,    birthDate |-> <<"1","9","7","5","-","1","1","-","2","8">>, gender |-> "male"] >>

\* the year the generator measures ages from
MOCK_YEAR == 2025

\* age = 2025 - int(patient["birthDate"][:4])
PatientAge(patient) == MOCK_YEAR - ParseInt(SubSeq(patient.birthDate, 1, 4))

\* the skip test with strict comparisons: an age equal to the value is kept
AgeFilterSkips_OffByOne(age_filter, age) ==
    /\ age_filter # None
    /\ LET f == age_filter[1] IN
       \/ f.type = "gt" /\ age < f.value
       \/ f.type = "lt" /\ age > f.value
       \/ f.type = "range" /\ (age < f.min \/ age > f.max)

\* the `continue` conditions of the age filter
AgeFilterSkips(age_filter, age) ==
    /\ age_filter # None
    /\ LET f == age_filter[1] IN
       \/ f.type = "gt" /\ age <= f.value
       \/ f.type = "lt" /\ age >= f.value
       \/ f.type = "range" /\ (age < f.min \/ age > f.max)

\* the condition entries attached to one patient
PatientConditions(intent, patient) ==
    [k \in 1..Len(intent.conditions) |->
        [code    |-> [coding |-> <<[system  |-> intent.conditions[k].system,
                                    code    |-> intent.conditions[k].code,
                                    display |-> intent.conditions[k].display]>>],
         subject |-> [reference |-> <<"Patient/", patient.id>>]]]

PatientResource(intent, patient) ==
    [resourceType |-> "Patient",
     id           |-> patient.id,
     name         |-> <<[given |-> <<patient.name[1]>>, family |-> patient.name[2]]>>,
     birthDate    |-> patient.birthDate,
     gender       |-> patient.gender,
     conditions   |-> PatientConditions(intent, patient),
     age          |-> PatientAge(patient)]

\* the loop over base_patients from entry i on, with `patients` built so far
RECURSIVE MockLoop(_, _, _)
MockLoop(intent, i, patients) ==
    IF i > Len(base_patients) THEN patients
    ELSE IF AgeFilterSkips(intent.age_filter, PatientAge(base_patients[i]))
         THEN MockLoop(intent, i + 1, patients)
         ELSE LET appended == Append(patients, PatientResource(intent, base_patients[i])) IN
              IF Truthy(intent.count_limit) /\ Len(appended) >= intent.count_limit[1]
              THEN appended
              ELSE MockLoop(intent, i + 1, appended)

\* the bundle with total counted before the entries are selected
MockBundle_RosterTotal(patients) ==
    [resourceType |-> "Bundle",
     type         |-> "searchset",
     total        |-> Len(base_patients),
     entry        |-> [k \in 1..Len(patients) |-> [resource |-> patients[k]]]]

\* the returned dict
MockBundle(patients) ==
    [resourceType |-> "Bundle",
     type         |-> "searchset",
     total        |-> Len(patients),
     entry        |-> [k \in 1..Len(patients) |-> [resource |-> patients[k]]]]

generate_mock_fhir_response(intent) == MockBundle(MockLoop(intent, 1, <<>>))

(***************************************************************************)
(* Inputs: the query texts a client posts and the values of the clock.     *)
(***************************************************************************)
\* ages written in one-number phrases; the last is larger than any year
SingleAges == {45, 50, 56, 60, 3000}

\* ages written in two-number phrases
RangeAges == {40, 60, 70}

ActionPhrases == {<<"S","h","o","w"," ","m","e"," ","a","l","l"," ">>, <<"F","i","n","d"," ">>, <<"G","e","t"," ","a","n","d"," ","s","h","o","w"," ">>,
                  <<"H","o","w"," ","m","a","n","y"," ">>, <<"C","o","u","n","t"," ","o","r"," ","f","e","t","c","h"," ">>}

CountPhrases ==
    {<<"p","a","t","i","e","n","t","s">>} \cup {IntToStr(n) \o <<" ","p","a","t","i","e","n","t","s">> : n \in 0..MaxCount}

ConditionPhrases == {<<>>, <<" ","w","i","t","h"," ","d","i","a","b","e","t","e","s">>, <<" ","d","i","a","b","e","t","i","c"," ","w","i","t","h"," ","a","s","t","h","m","a">>}

AgePhrases ==
    {<<>>, <<" ","a","g","e"," ","4","0">>, <<" ","u","n","d","e","r"," ","6","0"," ","o","v","e","r"," ","5","0">>, <<" ","b","e","t","w","e","e","n"," ","4","0"," ","a","n","d"," ","7","0"," ","o","v","e","r"," ","5","0">>,
     <<" ","4","0"," ","t","o"," ","6","0"," ","o","r"," ","b","e","t","w","e","e","n"," ","6","0"," ","a","n","d"," ","7","0">>}
    \cup {w \o IntToStr(a) : w \in {<<" ","o","v","e","r"," ">>, <<" ","a","b","o","v","e"," ">>, <<" ","u","n","d","e","r"," ">>, <<" ","b","e","l","o","w"," ">>},
                             a \in SingleAges}
    \cup {<<" ","b","e","t","w","e","e","n"," ">> \o IntToStr(a) \o <<" ","a","n","d"," ">> \o IntToStr(b) :
             a \in RangeAges, b \in RangeAges}
    \cup {<<" ","a","g","e","d"," ">> \o IntToStr(a) \o <<" ","t","o"," ">> \o IntToStr(b) :
             a \in RangeAges, b \in RangeAges}

Queries ==
    {act \o cnt \o cond \o age : act \in ActionPhrases, cnt \in CountPhrases,
                                 cond \in ConditionPhrases, age \in AgePhrases}

\* the dates of the first datetime.now() of a request, as ordinals:
\* 2025-06-01 and 2026-11-04
Nows == {Ymd2Ord(2025, 6, 1), Ymd2Ord(2026, 11, 4)}

(***************************************************************************)
(* The request handler process_query as a state machine.                   *)
(***************************************************************************)
VARIABLES
    pc,             \* position of the handler
    query_text,     \* data.get('query', '')
    intent,         \* the QueryIntent, once extracted
    clock_reads,    \* the values datetime.now() returned to build_fhir_query
    fhir_query,     \* the dict build_fhir_query returned
    mock_response,  \* the dict generate_mock_fhir_response returned
    response        \* what the handler returned: [status, error]

vars == <<pc, query_text, intent, clock_reads, fhir_query, mock_response, response>>

Init ==
    /\ pc = "idle"
    /\ query_text = <<>>
    /\ intent = None
    /\ clock_reads = <<>>
    /\ fhir_query = None
    /\ mock_response = None
    /\ response = None

\* a request with a non-empty query enters the try block
ReceiveQuery ==
    /\ pc = "idle"
    /\ \E q \in Queries :
         /\ Len(q) > 0
         /\ query_text' = q
    /\ pc' = "extract"
    /\ UNCHANGED <<intent, clock_reads, fhir_query, mock_response, response>>

\* `if not query_text`: 400
RejectEmptyQuery ==
    /\ pc = "idle"
    /\ query_text' = <<>>
    /\ response' = Some([status |-> 400, error |-> "Query text is required"])
    /\ pc' = "done"
    /\ UNCHANGED <<intent, clock_reads, fhir_query, mock_response>>

ExtractIntent ==
    /\ pc = "extract"
    /\ intent' = Some(extract_intent(query_text))
    /\ pc' = "build"
    /\ UNCHANGED <<query_text, clock_reads, fhir_query, mock_response, response>>

\* the clock values the age-filter block reads: none without an age filter,
\* one for gt and lt, two for range (the second a day later at most)
ClockReads(it, now1, now2) ==
    IF it.age_filter = None THEN <<>>
    ELSE IF it.age_filter[1].type = "range" THEN <<now1, now2>>
    ELSE <<now1>>

\* build_fhir_query returns
BuildFhirQuery ==
    /\ pc = "build"
    /\ \E now1 \in Nows, d \in {0, 1} :
         /\ ~BuildRaises(intent[1], now1, now1 + d)
         /\ clock_reads' = ClockReads(intent[1], now1, now1 + d)
         /\ fhir_query' = Some(build_fhir_query(intent[1], now1, now1 + d))
    /\ pc' = "generate"
    /\ UNCHANGED <<query_text, intent, mock_response, response>>

\* build_fhir_query raises; `except Exception`: 500
BuildFhirQueryRaises ==
    /\ pc = "build"
    /\ \E now1 \in Nows, d \in {0, 1} :
         /\ BuildRaises(intent[1], now1, now1 + d)
         /\ clock_reads' = ClockReads(intent[1], now1, now1 + d)
    /\ response' = Some([status |-> 500, error |-> "date value out of range"])
    /\ pc' = "done"
    /\ UNCHANGED <<query_text, intent, fhir_query, mock_response>>

GenerateMockResponse ==
    /\ pc = "generate"
    /\ mock_response' = Some(generate_mock_fhir_response(intent[1]))
    /\ pc' = "respond"
    /\ UNCHANGED <<query_text, intent, clock_reads, fhir_query, response>>

\* return jsonify({...}): 200
Respond ==
    /\ pc = "respond"
    /\ response' = Some([status |-> 200, error |-> ""])
    /\ pc' = "done"
    /\ UNCHANGED <<query_text, intent, clock_reads, fhir_query, mock_response>>

\* the handler has returned; nothing is kept for the next request
Return ==
    /\ pc = "done"
    /\ pc' = "idle"
    /\ query_text' = <<>>
    /\ intent' = None
    /\ clock_reads' = <<>>
    /\ fhir_query' = None
    /\ mock_response' = None
    /\ response' = None

Next ==
    \/ ReceiveQuery
    \/ RejectEmptyQuery
    \/ ExtractIntent
    \/ BuildFhirQuery
    \/ BuildFhirQueryRaises
    \/ GenerateMockResponse
    \/ Respond
    \/ Return

Spec == Init /\ [][Next]_vars

(***************************************************************************)
(* Vocabulary of the properties: how a search server reads the birthdate   *)
(* parameter, ages on a date, and what a query text says.                  *)
(***************************************************************************)
\* "YYYY-MM-DD" as <<year, month, day>>
ParseDate(s) ==
    <<ParseInt(SubSeq(s, 1, 4)), ParseInt(SubSeq(s, 6, 7)), ParseInt(SubSeq(s, 9, 10))>>

DateLE(a, b) ==
    \/ a[1] < b[1]
    \/ a[1] = b[1] /\ a[2] < b[2]
    \/ a[1] = b[1] /\ a[2] = b[2] /\ a[3] <= b[3]

\* the clauses of a birthdate parameter: "geD", "leD" or "geD&birthdate=leD"
BirthdateClauses(param) ==
    IF Len(param) > 12
    THEN <<[op |-> SubSeq(param, 1, 2),   date |-> ParseDate(SubSeq(param, 3, 12))],
           [op |-> SubSeq(param, 24, 25), date |-> ParseDate(SubSeq(param, 26, 35))]>>
    ELSE <<[op |-> SubSeq(param, 1, 2),   date |-> ParseDate(SubSeq(param, 3, 12))]>>

\* a record born on birthDate passes the birthdate parameter
SatisfiesBirthdate(param, birthDate) ==
    LET cl == BirthdateClauses(param)
        b  == ParseDate(birthDate)
    IN  \A k \in 1..Len(cl) :
           /\ cl[k].op = <<"l","e">> => DateLE(b, cl[k].date)
           /\ cl[k].op = <<"g","e">> => DateLE(cl[k].date, b)

\* completed years of life on the day `now` of a person born on `birth`
AgeOn(birth, now) ==
    IF birth[2] < now[2] \/ (birth[2] = now[2] /\ birth[3] <= now[3])
    THEN now[1] - birth[1]
    ELSE now[1] - birth[1] - 1

\* the text has the word followed by a number / by exactly the number n
SaysWord(q, w) ==
    \E i \in 1..Len(q) :
       StartsAt(q, i, w) /\ i + Len(w) <= Len(q) /\ IsDigit(q[i + Len(w)])

SaysWordNum(q, w, n) ==
    \E i \in 1..Len(q) :
       LET e == i + Len(w) + Len(IntToStr(n)) IN
       StartsAt(q, i, w \o IntToStr(n)) /\ ~(e <= Len(q) /\ IsDigit(q[e]))

\* the text has "between N and M" or "N to M" / with exactly a and b
SaysRange(q) ==
    \E i \in 1..Len(q) :
       LET e == DigitRunEnd(q, i) IN
       /\ e >= i
       /\ \/ StartsAt(q, e + 1, <<" ","t","o"," ">>) /\ DigitRunEnd(q, e + 5) >= e + 5
          \/ /\ StartsAt(q, i - 8, <<"b","e","t","w","e","e","n"," ">>)
             /\ StartsAt(q, e + 1, <<" ","a","n","d"," ">>)
             /\ DigitRunEnd(q, e + 6) >= e + 6

SaysRangeOf(q, a, b) ==
    \E i \in 1..Len(q) :
       \/ LET t == <<"b","e","t","w","e","e","n"," ">> \o IntToStr(a) \o <<" ","a","n","d"," ">> \o IntToStr(b) IN
          StartsAt(q, i, t) /\ ~(i + Len(t) <= Len(q) /\ IsDigit(q[i + Len(t)]))
       \/ LET t == IntToStr(a) \o <<" ","t","o"," ">> \o IntToStr(b) IN
          /\ StartsAt(q, i, t)
          /\ ~(i + Len(t) <= Len(q) /\ IsDigit(q[i + Len(t)]))
          /\ ~(i > 1 /\ IsDigit(q[i - 1]))

SaysGt(q) == SaysWord(q, <<"o","v","e","r"," ">>) \/ SaysWord(q, <<"a","b","o","v","e"," ">>)

SaysLt(q) == SaysWord(q, <<"u","n","d","e","r"," ">>) \/ SaysWord(q, <<"b","e","l","o","w"," ">>)

SaysAge(q) == SaysWord(q, <<"a","g","e"," ">>)

ActionKeywords ==
    {<<"s","h","o","w">>, <<"d","i","s","p","l","a","y">>, <<"l","i","s","t">>, <<"g","e","t">>, <<"r","e","t","r","i","e","v","e">>, <<"f","e","t","c","h">>,
     <<"c","o","u","n","t">>, <<"h","o","w"," ","m","a","n","y">>}

HasKeyword(q, ws) == \E w \in ws : Contains(q, w)

\* the ids of the roster records the intent's age predicate keeps, in order
RECURSIVE KeptIds(_, _)
KeptIds(f, i) ==
    IF i > Len(base_patients) THEN <<>>
    ELSE LET age  == MOCK_YEAR - ParseDate(base_patients[i].birthDate)[1]
             keep == \/ f = None
                     \/ f # None /\ f[1].type = "gt" /\ age > f[1].value
                     \/ f # None /\ f[1].type = "lt" /\ age < f[1].value
                     \/ f # None /\ f[1].type = "range"
                          /\ f[1].min <= age /\ age <= f[1].max
         IN  (IF keep THEN <<base_patients[i].id>> ELSE <<>>) \o KeptIds(f, i + 1)

EntryIds(bundle) == [k \in 1..Len(bundle.entry) |-> bundle.entry[k].resource.id]

RosterIndex(id) == CHOOSE i \in 1..Len(base_patients) : base_patients[i].id = id

Min(a, b) == IF a <= b THEN a ELSE b

(***************************************************************************)
(* Properties.                                                             *)
(***************************************************************************)

\* C1: every record the generator puts in the bundle also passes the
\* birthdate parameter that build_fhir_query emitted for the same intent.
C1_BundleSatisfiesQuery ==
    (pc = "respond" /\ "birthdate" \in DOMAIN fhir_query[1]) =>
        \A k \in 1..Len(mock_response[1].entry) :
            SatisfiesBirthdate(fhir_query[1].birthdate,
                               mock_response[1].entry[k].resource.birthDate)

\* C2: every record of the bundle satisfies the intent's age predicate
\* (gt: age > value, lt: age < value, range: min <= age <= max) with the age
\* that follows from its birth date, and carries the requested conditions;
\* filtering the bundle by these predicates again returns the same entries.
C2_Pred(it, r) ==
    /\ r.age = MOCK_YEAR - ParseDate(r.birthDate)[1]
    /\ it.age_filter # None =>
         LET f == it.age_filter[1] IN
         /\ f.type = "gt" => r.age > f.value
         /\ f.type = "lt" => r.age < f.value
         /\ f.type = "range" => (f.min <= r.age /\ r.age <= f.max)
    /\ Len(r.conditions) = Len(it.conditions)
    /\ \A c \in 1..Len(it.conditions) :
          r.conditions[c].code.coding = <<it.conditions[c]>>

C2_BundleSatisfiesIntent ==
    pc = "respond" =>
        LET entry == mock_response[1].entry
            keep(e) == C2_Pred(intent[1], e.resource)
        IN  /\ \A k \in 1..Len(entry) : keep(entry[k])
            /\ SelectSeq(entry, keep) = entry

C2_Witness ==
    /\ pc = "respond"
    /\ intent[1].age_filter # None
    /\ Len(intent[1].conditions) > 0
    /\ Len(mock_response[1].entry) > 0
    /\ Len(mock_response[1].entry) < Len(base_patients)

\* C3: when count_limit is present the bundle has at most count_limit
\* entries, and they are the first count_limit records, in roster order, of
\* the roster filtered by the age predicate; also for count_limit = 0.
C3_CountLimitTruncates ==
    (pc = "respond" /\ intent[1].count_limit # None) =>
        LET limit == intent[1].count_limit[1]
            kept  == KeptIds(intent[1].age_filter, 1)
        IN  /\ mock_response[1].total <= limit
            /\ Len(mock_response[1].entry) <= limit
            /\ EntryIds(mock_response[1]) = SubSeq(kept, 1, Min(limit, Len(kept)))

\* C4: build_fhir_query never emits a birth-date range whose lower bound
\* (ge) is later than its upper bound (le).
C4_RangeBoundsOrdered ==
    (pc = "generate" /\ "birthdate" \in DOMAIN fhir_query[1]) =>
        LET cl == BirthdateClauses(fhir_query[1].birthdate) IN
        Len(cl) = 2 => DateLE(cl[1].date, cl[2].date)

\* C5: for greater-than(N) and for less-than(N) the emitted birthdate
\* parameter excludes every person who is exactly N years old at `now`.
C5_ExactAgeExcluded ==
    (pc = "generate" /\ intent[1].age_filter # None
        /\ intent[1].age_filter[1].type \in {"gt", "lt"}) =>
        LET n   == intent[1].age_filter[1].value
            now == clock_reads[1]
        IN  \A b \in (now - 365 * n - 400)..(now - 365 * n) :
               AgeOn(Ord2Ymd(b), Ord2Ymd(now)) = n
                   => ~SatisfiesBirthdate(fhir_query[1].birthdate, Strftime(b))

C7_PipelineNeverRaises ==
    (pc = "done" /\ Len(query_text) > 0) => response[1].status = 200

\* C8 as stated: with no action keyword in the text the action is `show`;
\* otherwise it is the first group present in the order show, get, count.
C8_ActionDefaultShow ==
    pc = "build" =>
        LET q == Lower(query_text)
            a == intent[1].action
        IN  /\ ~HasKeyword(q, ActionKeywords) => a = "show"
            /\ HasKeyword(q, {<<"s","h","o","w">>, <<"d","i","s","p","l","a","y">>, <<"l","i","s","t">>}) => a = "show"
            /\ (a = "get") <=>
                 /\ ~HasKeyword(q, {<<"s","h","o","w">>, <<"d","i","s","p","l","a","y">>, <<"l","i","s","t">>})
                 /\ HasKeyword(q, {<<"g","e","t">>, <<"r","e","t","r","i","e","v","e">>, <<"f","e","t","c","h">>})
            /\ (a = "count") <=>
                 /\ ~HasKeyword(q, {<<"s","h","o","w">>, <<"d","i","s","p","l","a","y">>, <<"l","i","s","t">>})
                 /\ ~HasKeyword(q, {<<"g","e","t">>, <<"r","e","t","r","i","e","v","e">>, <<"f","e","t","c","h">>})
                 /\ HasKeyword(q, {<<"c","o","u","n","t">>, <<"h","o","w"," ","m","a","n","y">>})

\* C8 as amended: with no action keyword in the text the action is `find`;
\* otherwise it is the first group present in the order show, get, count.
C8_ActionDefaultFind ==
    pc = "build" =>
        LET q == Lower(query_text)
            a == intent[1].action
        IN  /\ (a = "find") <=> ~HasKeyword(q, ActionKeywords)
            /\ (a = "show") <=> HasKeyword(q, {<<"s","h","o","w">>, <<"d","i","s","p","l","a","y">>, <<"l","i","s","t">>})
            /\ (a = "get") <=>
                 /\ ~HasKeyword(q, {<<"s","h","o","w">>, <<"d","i","s","p","l","a","y">>, <<"l","i","s","t">>})
                 /\ HasKeyword(q, {<<"g","e","t">>, <<"r","e","t","r","i","e","v","e">>, <<"f","e","t","c","h">>})
            /\ (a = "count") <=>
                 /\ ~HasKeyword(q, {<<"s","h","o","w">>, <<"d","i","s","p","l","a","y">>, <<"l","i","s","t">>})
                 /\ ~HasKeyword(q, {<<"g","e","t">>, <<"r","e","t","r","i","e","v","e">>, <<"f","e","t","c","h">>})
                 /\ HasKeyword(q, {<<"c","o","u","n","t">>, <<"h","o","w"," ","m","a","n","y">>})

C8_Witness ==
    /\ pc = "build"
    /\ ~HasKeyword(Lower(query_text), ActionKeywords)
    /\ intent[1].action = "find"

\* C9: build_fhir_query emits a parameter exactly when the intent implies
\* it: _count (equal to count_limit) iff count_limit is present, birthdate
\* iff age_filter is present, condition iff conditions is non-empty, and no
\* emitted value is empty.
C9_ParamsIffImplied ==
    pc = "generate" =>
        LET p  == fhir_query[1]
            it == intent[1]
        IN  /\ ("_count" \in DOMAIN p) <=> (it.count_limit # None)
            /\ "_count" \in DOMAIN p => p._count = it.count_limit[1]
            /\ ("birthdate" \in DOMAIN p) <=> (it.age_filter # None)
            /\ "birthdate" \in DOMAIN p => Len(p.birthdate) > 0
            /\ ("condition" \in DOMAIN p) <=> (Len(it.conditions) > 0)
            /\ "condition" \in DOMAIN p => Len(p.condition) > 0

\* C10: the bundle's total is the number of entries it holds, after the age
\* filter and the count limit, and the entries are in roster order.
C10_TotalAndOrder ==
    pc = "respond" =>
        LET b == mock_response[1] IN
        /\ b.total = Len(b.entry)
        /\ \A j, k \in 1..Len(b.entry) :
              j < k => RosterIndex(b.entry[j].resource.id)
                         < RosterIndex(b.entry[k].resource.id)

C10_Witness ==
    /\ pc = "respond"
    /\ intent[1].age_filter # None
    /\ Truthy(intent[1].count_limit)
    /\ mock_response[1].total = intent[1].count_limit[1]
    /\ mock_response[1].total >= 2
    /\ Len(KeptIds(intent[1].age_filter, 1)) > mock_response[1].total

====
